---- MODULE Spec2Model ----
(***************************************************************************)
(* A model of photo_move.py: the path derivation _generate_target_path,   *)
(* the three phases of enhanced_file_copy (scan, copy, verify) over a     *)
(* small file system, the result reporter log_operation_results, and an   *)
(* external process that may delete files while a run is in progress.     *)
(*                                                                         *)
(* A path is a sequence of segments, the last one being the file name.    *)
(* The file system fs maps every existing file path to its content and    *)
(* its creation date.                                                      *)
(***************************************************************************)
EXTENDS Integers, Sequences, FiniteSets, TLC

\* ------------------------------------------------------------------ bounds

\* How many files of Pool are on the source card.
MaxFiles == 3
\* How many times enhanced_file_copy is called with the same request.
MaxRuns == 2
\* How many times the environment interferes with the runs: an external process
\* deletes a file, or an I/O call fails.
MaxEnv == 1

\* ------------------------------------------------------------------ inputs

SourceRoot == <<"S">>

\* The placeholder token of the target template (photo_move.py:42).
DataStr == "data_str"

\* The date given to a file created by a copy during the run.
Today == "20240303"

\* One target outside the source tree, with the date placeholder, one inside
\* the source tree, and the source root itself.
TargetRoots == { <<"T", DataStr>>, <<"S", "B">>, <<"S">> }

PreserveLists == { <<>>, <<"P">>, <<"P", "H">>, <<"H", "P">> }

Suffixes == { ".JPG", ".NEF" }

\* The files that may be on the source card.
Pool ==
  << [path |-> <<"S", "H", "P", "x.JPG">>,      content |-> "c1", ctime |-> "20240301"],
     [path |-> <<"S", "B", "x.JPG">>,           content |-> "c2", ctime |-> "20240301"],
     [path |-> <<"S", "P", "H", "P", "y.NEF">>, content |-> "c1", ctime |-> "20240302"],
     [path |-> <<"S", "x.JPG">>,                content |-> "c3", ctime |-> "20240302"] >>

PoolIndexes == { k \in DOMAIN Pool : k <= MaxFiles }

\* file.endswith(file_suffix) for the file names of Pool.
EndsWith(name, suffix) ==
  \/ suffix = ".JPG" /\ name \in {"x.JPG"}
  \/ suffix = ".NEF" /\ name \in {"y.NEF"}

\* ------------------------------------------------------------------ paths

Range(s) == { s[k] : k \in DOMAIN s }

Basename(p) == p[Len(p)]

Dirname(p) == SubSeq(p, 1, Len(p) - 1)

IsPrefix(a, b) == Len(a) <= Len(b) /\ SubSeq(b, 1, Len(a)) = a

\* os.path.relpath(dir, root) split into segments, for dir at or below root.
RelSegments(dir, root) ==
  IF dir = root THEN <<".">> ELSE SubSeq(dir, Len(root) + 1, Len(dir))

\* list.index: the position of the first occurrence of name in segs.
FirstIndex(segs, name) ==
  CHOOSE k \in DOMAIN segs :
    segs[k] = name /\ \A m \in DOMAIN segs : segs[m] = name => k <= m

\* The loop over preserve_dirs from position k: the index in segs where the
\* preserved subtree starts, 0 when no name of preserve_dirs is a segment.
RECURSIVE MatchPreserve(_, _, _)
MatchPreserve(preserve_dirs, segs, k) ==
  IF k > Len(preserve_dirs) THEN 0
  ELSE IF preserve_dirs[k] \in Range(segs) THEN FirstIndex(segs, preserve_dirs[k])
  ELSE MatchPreserve(preserve_dirs, segs, k + 1)

\* A slip: the shallowest segment that is a preserve name wins.
TargetSubdirByDepth(target_root, preserve_dirs, segs) ==
  LET hits == { k \in DOMAIN segs : segs[k] \in Range(preserve_dirs) }
  IN IF hits = {} THEN target_root
     ELSE target_root \o
          SubSeq(segs, CHOOSE k \in hits : \A m \in hits : k <= m, Len(segs))

\* target_subdir before the date is substituted.
TargetSubdir(target_root, preserve_dirs, segs) ==
  LET dir_index == MatchPreserve(preserve_dirs, segs, 1)
  IN IF dir_index = 0 THEN target_root
     ELSE target_root \o SubSeq(segs, dir_index, Len(segs))

\* target_subdir.replace("data_str", data_str), segment by segment.
DateSubst(subdir, date) ==
  [k \in DOMAIN subdir |-> IF subdir[k] = DataStr THEN date ELSE subdir[k]]

\* _generate_target_path, for a source file that exists with creation date date.
GenerateTargetPath(source_root, target_root, preserve_dirs, src_path, date) ==
  LET path_segments == RelSegments(Dirname(src_path), source_root)
      target_subdir == TargetSubdir(target_root, preserve_dirs, path_segments)
  IN DateSubst(target_subdir, date) \o <<Basename(src_path)>>

\* ------------------------------------------------------------------ state

VARIABLES
  fs,          \* the file system: path -> [content, ctime], existing files only
  root_status, \* "ok", "missing" or "unreadable": what os.walk meets at source_root
  req,         \* the arguments of enhanced_file_copy
  pc,          \* "start", "copy", "verify", "done": where enhanced_file_copy is;
               \* "raised_in_copy", "raised_in_verify": an exception left it;
               \* "logged", "log_error": the reporter returned, or raised
  file_list,   \* the pre-scanned candidates, as source paths in walk order
  idx,         \* position of the running loop in file_list, then in result.copied
  result,      \* the result dictionary
  src_path,    \* the loop's src_path, NoPath before the first iteration
  dest_path,   \* the loop's dest_path, NoPath before the first iteration
  history,     \* the results returned by the earlier calls
  env_events   \* how many times the environment has interfered

vars == << fs, root_status, req, pc, file_list, idx, result, src_path, dest_path,
           history, env_events >>

NoPath == <<>>

Files == DOMAIN fs

\* The file system without file p.
Remove(f, p) == [q \in DOMAIN f \ {p} |-> f[q]]

\* A slip: the file is moved, not copied.
WriteMovesSource(f, src, dest) ==
  LET date == IF dest \in DOMAIN f THEN f[dest].ctime ELSE Today
      new == [content |-> f[src].content, ctime |-> date]
  IN [q \in (DOMAIN f \cup {dest}) \ {src} |-> IF q = dest THEN new ELSE f[q]]

\* shutil.copy2 writing the content of src to dest: an existing file keeps its
\* creation date, a new one is created now.
Write(f, src, dest) ==
  LET date == IF dest \in DOMAIN f THEN f[dest].ctime ELSE Today
      new == [content |-> f[src].content, ctime |-> date]
  IN [q \in DOMAIN f \cup {dest} |-> IF q = dest THEN new ELSE f[q]]

\* _compute_file_hash: the digest of the content read.
ComputeFileHash(f, p) == << "sha256", f[p].content >>

EmptyResult ==
  [total_files |-> 0, copied |-> <<>>, skipped |-> <<>>, failed |-> <<>>,
   hash_mismatch |-> <<>>]

\* The error recorded by the copy phase and the one wrapped by the verify phase.
CopyError(e) == [wrapped |-> FALSE, error |-> e]

VerifyError(e) == [wrapped |-> TRUE, error |-> e]

DestNotFound == VerifyError("destination not found")

SourceFiles ==
  [p \in { Pool[k].path : k \in PoolIndexes } |->
     LET k == CHOOSE n \in PoolIndexes : Pool[n].path = p
     IN [content |-> Pool[k].content, ctime |-> Pool[k].ctime]]

NoFiles == [p \in {} |-> [content |-> "c1", ctime |-> Today]]

Init ==
  /\ root_status \in {"ok", "missing", "unreadable"}
  /\ fs = IF root_status = "missing" THEN NoFiles ELSE SourceFiles
  /\ req \in [target_root : TargetRoots, preserve_dirs : PreserveLists,
              file_suffix : Suffixes, overwrite : BOOLEAN]
  /\ pc = "start"
  /\ file_list = <<>>
  /\ idx = 1
  /\ result = EmptyResult
  /\ src_path = NoPath
  /\ dest_path = NoPath
  /\ history = <<>>
  /\ env_events = 0

\* ------------------------------------------------------------------ scan

\* What os.walk(source_root) with the suffix filter finds: nothing when the root
\* is missing or unreadable, since os.walk ignores the error of its scandir.
Candidates(f, status, suffix) ==
  IF status = "ok"
  THEN { p \in DOMAIN f : IsPrefix(SourceRoot, p) /\ EndsWith(Basename(p), suffix) }
  ELSE {}

\* The orders a top-down walk can list the candidates in: the files of a
\* directory come before the files of the directories below it.
WalkOrders(cands) ==
  { s \in [1..Cardinality(cands) -> cands] :
      /\ Range(s) = cands
      /\ \A a, b \in DOMAIN s :
           a < b => ~ ( /\ IsPrefix(Dirname(s[b]), Dirname(s[a]))
                        /\ Dirname(s[b]) # Dirname(s[a]) ) }

\* Where a loop goes after its last iteration.
AfterCopy(res) == IF Len(res.copied) = 0 THEN "done" ELSE "verify"

Scan ==
  /\ pc = "start"
  /\ \E order \in WalkOrders(Candidates(fs, root_status, req.file_suffix)) :
       /\ file_list' = order
       /\ result' = [EmptyResult EXCEPT !.total_files = Len(order)]
       /\ pc' = IF Len(order) = 0 THEN "done" ELSE "copy"
  /\ idx' = 1
  /\ UNCHANGED << fs, root_status, req, src_path, dest_path, history, env_events >>

\* ------------------------------------------------------------------ copy

RecordCopied(res, p) == [res EXCEPT !.copied = Append(@, p)]

\* A slip: a skipped file is counted as copied too.
RecordSkippedAlsoCopied(res, p) ==
  [res EXCEPT !.skipped = Append(@, p), !.copied = Append(@, p)]

RecordSkipped(res, p) == [res EXCEPT !.skipped = Append(@, p)]

RecordFailed(res, p, e) == [res EXCEPT !.failed = Append(@, <<p, e>>)]

RecordMismatch(res, p) == [res EXCEPT !.hash_mismatch = Append(@, p)]

\* A slip: the overwrite flag is read the wrong way round.
CopyDecisionInverted(exists, overwrite) ==
  IF exists THEN (IF overwrite THEN "skip" ELSE "copy") ELSE "copy"

\* A slip: an existing destination is always overwritten.
CopyDecisionAlwaysCopy(exists, overwrite) == "copy"

\* The existence check of the copy loop: "copy" or "skip".
CopyDecision(exists, overwrite) ==
  IF exists THEN (IF overwrite THEN "copy" ELSE "skip") ELSE "copy"

\* The ways shutil.copy2 can fail on an I/O error: before writing, or after
\* truncating the destination.
CopyFaults == {"open", "write"}

Truncated(f, dest) ==
  LET date == IF dest \in DOMAIN f THEN f[dest].ctime ELSE Today
      new == [content |-> "partial", ctime |-> date]
  IN [q \in DOMAIN f \cup {dest} |-> IF q = dest THEN new ELSE f[q]]

\* The environment may still interfere: delete a file or fail an I/O call.
MayInterfere == env_events < MaxEnv

\* One iteration of the copy loop. The destination path is derived before the
\* try block: an exception of _generate_target_path (the source file is gone, or
\* os.makedirs fails) leaves enhanced_file_copy.
CopyFile ==
  /\ pc = "copy"
  /\ src_path' = file_list[idx]
  /\ \/ /\ file_list[idx] \notin Files
        /\ pc' = "raised_in_copy"
        /\ UNCHANGED << fs, idx, result, dest_path, env_events >>
     \/ /\ file_list[idx] \in Files
        /\ MayInterfere
        /\ pc' = "raised_in_copy"
        /\ env_events' = env_events + 1
        /\ UNCHANGED << fs, idx, result, dest_path >>
     \/ /\ file_list[idx] \in Files
        /\ LET src == file_list[idx]
               dest == GenerateTargetPath(SourceRoot, req.target_root,
                                          req.preserve_dirs, src, fs[src].ctime)
           IN /\ dest_path' = dest
              /\ IF CopyDecision(dest \in Files, req.overwrite) = "skip"
                 THEN /\ result' = RecordSkipped(result, src)
                      /\ UNCHANGED << fs, env_events >>
                 ELSE IF src = dest
                 THEN /\ result' = RecordFailed(result, src, CopyError("same file"))
                      /\ UNCHANGED << fs, env_events >>
                 ELSE \/ /\ result' = RecordCopied(result, src)
                         /\ fs' = Write(fs, src, dest)
                         /\ UNCHANGED env_events
                      \/ /\ MayInterfere
                         /\ \E fault \in CopyFaults :
                              /\ result' = RecordFailed(result, src, CopyError(fault))
                              /\ fs' = IF fault = "write" THEN Truncated(fs, dest) ELSE fs
                         /\ env_events' = env_events + 1
        /\ IF idx < Len(file_list)
           THEN idx' = idx + 1 /\ pc' = "copy"
           ELSE idx' = 1 /\ pc' = AfterCopy(result')
  /\ UNCHANGED << root_status, req, file_list, history >>

\* ------------------------------------------------------------------ verify

\* A slip: the digests are never compared.
VerifyOutcomeNoCompare(f, src, dest) ==
  IF dest \notin DOMAIN f THEN "missing" ELSE "match"

\* A slip: a missing destination is reported as a digest mismatch.
VerifyOutcomeMissingAsMismatch(f, src, dest) ==
  IF dest \notin DOMAIN f THEN "mismatch"
  ELSE IF ComputeFileHash(f, src) # ComputeFileHash(f, dest) THEN "mismatch"
  ELSE "match"

\* What the body of the verify loop's try block finds, short of a read error.
VerifyOutcome(f, src, dest) ==
  IF dest \notin DOMAIN f THEN "missing"
  ELSE IF ComputeFileHash(f, src) # ComputeFileHash(f, dest) THEN "mismatch"
  ELSE "match"

\* One iteration of the verify loop over result["copied"]. The destination path
\* is derived again before the try block, as in the copy loop.
VerifyFile ==
  /\ pc = "verify"
  /\ src_path' = result.copied[idx]
  /\ \/ /\ result.copied[idx] \notin Files
        /\ pc' = "raised_in_verify"
        /\ UNCHANGED << idx, result, dest_path, env_events >>
     \/ /\ result.copied[idx] \in Files
        /\ MayInterfere
        /\ pc' = "raised_in_verify"
        /\ env_events' = env_events + 1
        /\ UNCHANGED << idx, result, dest_path >>
     \/ /\ result.copied[idx] \in Files
        /\ LET src == result.copied[idx]
               dest == GenerateTargetPath(SourceRoot, req.target_root,
                                          req.preserve_dirs, src, fs[src].ctime)
               outcome == VerifyOutcome(fs, src, dest)
           IN /\ dest_path' = dest
              /\ IF outcome = "missing"
                 THEN /\ result' = RecordFailed(result, src, DestNotFound)
                      /\ UNCHANGED env_events
                 ELSE \/ /\ result' = IF outcome = "mismatch"
                                       THEN RecordMismatch(result, src)
                                       ELSE result
                         /\ UNCHANGED env_events
                      \/ /\ MayInterfere
                         /\ result' = RecordFailed(result, src, VerifyError("read"))
                         /\ env_events' = env_events + 1
        /\ IF idx < Len(result.copied)
           THEN idx' = idx + 1 /\ pc' = "verify"
           ELSE idx' = 1 /\ pc' = "done"
  /\ UNCHANGED << fs, root_status, req, file_list, history >>

\* ------------------------------------------------------------------ callers

\* The keys log_operation_results reads from the result.
ReporterReads ==
  {"file_type", "total_files", "copied", "skipped", "failed", "hash_mismatch"}

\* A device routine hands the returned result to log_operation_results: a key
\* the result lacks raises KeyError, which leaves the routine.
LogOperationResults ==
  /\ pc = "done"
  /\ pc' = IF ReporterReads \subseteq DOMAIN result THEN "logged" ELSE "log_error"
  /\ UNCHANGED << fs, root_status, req, file_list, idx, result, src_path, dest_path,
                  history, env_events >>

\* enhanced_file_copy is called again with the same arguments.
Rerun ==
  /\ pc \in {"done", "logged"}
  /\ Len(history) + 1 < MaxRuns
  /\ history' = Append(history, result)
  /\ pc' = "start"
  /\ file_list' = <<>>
  /\ idx' = 1
  /\ result' = EmptyResult
  /\ src_path' = NoPath
  /\ dest_path' = NoPath
  /\ UNCHANGED << fs, root_status, req, env_events >>

\* An external process deletes a file while the run is copying or verifying.
ExternalDelete ==
  /\ pc \in {"copy", "verify"}
  /\ MayInterfere
  /\ \E p \in Files : fs' = Remove(fs, p)
  /\ env_events' = env_events + 1
  /\ UNCHANGED << root_status, req, pc, file_list, idx, result, src_path, dest_path,
                  history >>

Next ==
  \/ Scan
  \/ CopyFile
  \/ VerifyFile
  \/ LogOperationResults
  \/ Rerun
  \/ ExternalDelete

Spec == Init /\ [][Next]_vars

\* ------------------------------------------------------------------ claims

Sources(failed) == { failed[k][1] : k \in DOMAIN failed }

\* The failures recorded by the copy loop, not wrapped by the verify loop.
CopyFailures(failed) == { k \in DOMAIN failed : ~ failed[k][2].wrapped }

CopyPhaseFinished == pc \in {"verify", "done", "logged", "log_error"}

\* C1: once the copy loop has finished, every candidate of the scan is in exactly
\* one of copied, skipped and the sources of the copy loop's failed pairs, nothing
\* else is in them, and total_files is the sum of the three lengths.
C1_EveryCandidateOnce ==
  CopyPhaseFinished =>
    LET copy_failed == { result.failed[k][1] : k \in CopyFailures(result.failed) }
    IN /\ \A p \in Range(file_list) :
            /\ p \in Range(result.copied) \cup Range(result.skipped) \cup copy_failed
            /\ ~ (p \in Range(result.copied) /\ p \in Range(result.skipped))
            /\ ~ (p \in Range(result.copied) /\ p \in copy_failed)
            /\ ~ (p \in Range(result.skipped) /\ p \in copy_failed)
       /\ Range(result.copied) \cup Range(result.skipped) \cup copy_failed
            \subseteq Range(file_list)
       /\ result.total_files = Len(file_list)
       /\ result.total_files = Len(result.copied) + Len(result.skipped)
                                 + Cardinality(CopyFailures(result.failed))

\* A run of two candidates in which one was copied and the copy of the other failed.
C1_Witness ==
  /\ pc = "verify"
  /\ result.total_files = 2
  /\ Len(result.copied) = 1
  /\ Len(result.failed) = 1

\* C2: no exception raised for a candidate leaves the copy loop.
C2_CopyLoopNeverRaises == pc # "raised_in_copy"

\* The call before the running one returned a result, and nothing interfered.
SecondRunReturned ==
  /\ pc = "done"
  /\ Len(history) > 0
  /\ ~ req.overwrite
  /\ env_events = 0

Previous == history[Len(history)]

\* C3, as stated: with overwrite=false, a repeated call on the unchanged tree
\* returns copied empty and skipped equal, as a set, to the copied of the call
\* before it.
C3_SkippedIsPreviousCopied ==
  (SecondRunReturned /\ ~ IsPrefix(SourceRoot, req.target_root)) =>
    /\ result.copied = <<>>
    /\ Range(result.skipped) = Range(Previous.copied)

\* C3, amended: with overwrite=false and a target root outside the source root,
\* a repeated call on the unchanged tree returns copied empty and skipped equal,
\* as a set, to the copied and the skipped of the call before it together.
C3_SkippedIsPreviousCopiedAndSkipped ==
  (SecondRunReturned /\ ~ IsPrefix(SourceRoot, req.target_root)) =>
    /\ result.copied = <<>>
    /\ result.failed = <<>>
    /\ Range(result.skipped) = Range(Previous.copied) \cup Range(Previous.skipped)

\* A second call after a first one in which two candidates derived the same
\* destination: one was copied, the other skipped.
C3_Witness ==
  /\ SecondRunReturned
  /\ ~ IsPrefix(SourceRoot, req.target_root)
  /\ Len(Previous.copied) = 1
  /\ Len(Previous.skipped) = 1
  /\ Len(result.skipped) = 2

\* A step of the verify loop that finishes its iteration for result.copied[idx].
VerifyStep == pc = "verify" /\ (idx' = idx + 1 \/ pc' = "done")

\* A step of the copy loop that finishes its iteration for file_list[idx].
CopyStep == pc = "copy" /\ (idx' = idx + 1 \/ pc' \in {"verify", "done"})

SameContent(f, p, q) == p \in DOMAIN f /\ q \in DOMAIN f /\ f[p].content = f[q].content

\* C4: a copied path whose destination, when it is verified, is missing or has
\* another content than the source is put in hash_mismatch or in failed by that
\* iteration, and is still in one of them when enhanced_file_copy has returned.
C4_MismatchReported ==
  /\ [][VerifyStep =>
          LET p == result.copied[idx]
          IN SameContent(fs, p, dest_path')
               \/ p \in Range(result'.hash_mismatch)
               \/ p \in Sources(result'.failed)]_vars
  /\ [][(pc \in {"verify", "done"} /\ pc' \in {"verify", "done"}) =>
          /\ Range(result.hash_mismatch) \subseteq Range(result'.hash_mismatch)
          /\ Sources(result.failed) \subseteq Sources(result'.failed)
          /\ result'.copied = result.copied]_vars
  /\ [](pc = "done" =>
          \A k \in DOMAIN result.hash_mismatch :
            result.hash_mismatch[k] \in Range(result.copied))

\* With overwrite=true two candidates wrote the same destination, and the one
\* whose content was overwritten is reported.
C4_Witness ==
  /\ pc = "done"
  /\ req.overwrite
  /\ Len(result.copied) = 2
  /\ result.failed = <<>>
  /\ result.hash_mismatch = << result.copied[1] >>

\* C5: with overwrite=false, the iteration of the copy loop for a candidate whose
\* destination exists appends the candidate to skipped and changes neither the
\* file system nor the other lists; and a skipped path is never in hash_mismatch
\* nor a source of failed.
C5_SkipLeavesDestination ==
  /\ [][(CopyStep /\ ~ req.overwrite /\ dest_path' \in Files) =>
          /\ result' = [result EXCEPT !.skipped = Append(@, file_list[idx])]
          /\ fs' = fs]_vars
  /\ [](~ req.overwrite =>
          \A p \in Range(result.skipped) :
            /\ p \notin Range(result.hash_mismatch)
            /\ p \notin Sources(result.failed)
            /\ p \notin Range(result.copied))

\* A returned run that skipped a candidate whose destination holds another content.
C5_Witness ==
  /\ pc = "done"
  /\ ~ req.overwrite
  /\ \E p \in Range(result.skipped) :
       /\ p \in Files
       /\ LET dest == GenerateTargetPath(SourceRoot, req.target_root,
                                         req.preserve_dirs, p, fs[p].ctime)
          IN dest \in Files /\ dest # p /\ fs[dest].content # fs[p].content

\* C6: no exception raised for a copied file leaves the verify loop.
C6_VerifyLoopNeverRaises == pc # "raised_in_verify"

\* C7: when the verify loop reaches a copied path whose source is there and whose
\* destination is gone, and nothing else interferes, the iteration appends the
\* path with the destination-not-found error to failed, leaves copied and
\* hash_mismatch alone and goes on to the next copied path; and a path recorded
\* with that error stays in copied and is not in hash_mismatch.
C7_MissingDestinationRecorded ==
  /\ [][( /\ pc = "verify"
          /\ env_events' = env_events
          /\ result.copied[idx] \in Files
          /\ GenerateTargetPath(SourceRoot, req.target_root, req.preserve_dirs,
                                result.copied[idx], fs[result.copied[idx]].ctime)
               \notin Files ) =>
          /\ result' = [result EXCEPT
                          !.failed = Append(@, << result.copied[idx], DestNotFound >>)]
          /\ IF idx < Len(result.copied)
             THEN pc' = "verify" /\ idx' = idx + 1
             ELSE pc' = "done"]_vars
  /\ [](\A k \in DOMAIN result.failed :
          result.failed[k][2] = DestNotFound =>
            /\ result.failed[k][1] \in Range(result.copied)
            /\ result.failed[k][1] \notin Range(result.hash_mismatch))

\* Two files were copied, the destination of the first was deleted, and the
\* second was verified after the first was recorded.
C7_Witness ==
  /\ pc = "done"
  /\ Len(result.copied) = 2
  /\ result.failed = << << result.copied[1], DestNotFound >> >>
  /\ result.hash_mismatch = <<>>
  /\ src_path = result.copied[2]

\* The destination directory the claim describes for src under the request, before
\* the date is substituted: the names of preserve_dirs are tried in list order,
\* and the subtree starts where the first name found occurs first.
PreservedSubdir(target_root, preserve_dirs, src) ==
  LET segs == RelSegments(Dirname(src), SourceRoot)
      found == { k \in DOMAIN preserve_dirs : preserve_dirs[k] \in Range(segs) }
  IN IF found = {} THEN target_root
     ELSE LET k == CHOOSE n \in found : \A m \in found : n <= m
              at == { j \in DOMAIN segs : segs[j] = preserve_dirs[k] }
              first == CHOOSE j \in at : \A m \in at : j <= m
          IN target_root \o SubSeq(segs, first, Len(segs))

Dates == { Pool[k].ctime : k \in DOMAIN Pool } \cup {Today}

\* C8: the destination path last derived for a source path is the source's file name
\* under the directory chosen by preserve-list order, with the date placeholder
\* replaced by a date; target_root itself when no preserve name is a segment.
C8_PreserveListOrder ==
  (dest_path # NoPath /\ pc \notin {"raised_in_copy", "raised_in_verify"}) =>
    /\ Basename(dest_path) = Basename(src_path)
    /\ \E d \in Dates :
         Dirname(dest_path) =
           DateSubst(PreservedSubdir(req.target_root, req.preserve_dirs, src_path), d)
    /\ (\A k \in DOMAIN req.preserve_dirs :
          req.preserve_dirs[k] \notin Range(RelSegments(Dirname(src_path), SourceRoot)))
         => \E d \in Dates : Dirname(dest_path) = DateSubst(req.target_root, d)

\* The source directory H/P under the preserve list <<"P", "H">>: P comes first
\* in the list and deeper in the path, and the subtree kept starts at P.
C8_Witness ==
  /\ req.preserve_dirs = <<"P", "H">>
  /\ req.target_root = <<"T", DataStr>>
  /\ src_path = <<"S", "H", "P", "x.JPG">>
  /\ dest_path = <<"T", "20240301", "P", "x.JPG">>

\* C9: a call on a source root that is missing or unreadable does not return a
\* result.
C9_BadRootDoesNotReturn == ~ (root_status # "ok" /\ pc = "done")

\* C10: the reporter finds every key it reads in the result it is handed, and
\* does not raise.
C10_ReporterKeysPresent == pc # "log_error"

\* A step of the program, not of the external process: it moves a loop on, or
\* enters or leaves enhanced_file_copy.
ProgramStep == pc' # pc \/ idx' # idx

\* C11, as stated: no step of a run deletes a file, and none changes the content
\* of a candidate of the scan, whatever the request.
C11_SourcesUntouched ==
  [][ProgramStep =>
       \A p \in Files :
         /\ p \in DOMAIN fs'
         /\ p \in Range(file_list) => fs'[p].content = fs[p].content]_vars

\* C11, amended: no step of a run deletes a file, and a step changes the content
\* of a candidate of the scan only when overwrite=true, target_root is at or below
\* source_root, and the candidate is the destination derived for another candidate.
C11_SourcesUntouchedUnlessOverwritten ==
  [][ProgramStep =>
       \A p \in Files :
         /\ p \in DOMAIN fs'
         /\ (p \in Range(file_list) /\ fs'[p].content # fs[p].content) =>
              /\ req.overwrite
              /\ IsPrefix(SourceRoot, req.target_root)
              /\ pc = "copy"
              /\ p = dest_path'
              /\ p # file_list[idx]]_vars

\* A call with overwrite=true and the target inside the source tree has returned
\* with nothing interfering: every file of the card is still there, and a candidate
\* that was the destination of another one holds the other's content.
C11_Witness ==
  /\ pc = "done"
  /\ req.overwrite
  /\ IsPrefix(SourceRoot, req.target_root)
  /\ env_events = 0
  /\ DOMAIN SourceFiles \subseteq Files
  /\ \E p \in DOMAIN SourceFiles \cap Range(file_list) :
       fs[p].content # SourceFiles[p].content

====
